---- MODULE Spec2Model ----
(***************************************************************************)
(* Model of the map dashboard: the polygon sampling pipeline of            *)
(* MapView.tsx (draw.create / draw.update / draw.delete handlers,          *)
(* handlePolygonDraw, the classifiers and centroid helpers) and the        *)
(* drag/click state machine of TimelineSlider.tsx.                         *)
(*                                                                         *)
(* Numbers: a JavaScript number that the code obtains by a division is     *)
(* kept as an exact fraction [num, den]; comparisons cross-multiply.       *)
(* Nullable values are either the record Null or a record of their own.    *)
(***************************************************************************)
EXTENDS Integers, Sequences, FiniteSets, TLC

Null == [null |-> TRUE]
Throws == [throws |-> TRUE]

(* ------------------------------ bounds ------------------------------- *)
\* Total number of handlePolygonDraw calls in one behaviour.
MaxPasses == 2

(* ------------------------------ inputs ------------------------------- *)
Ids == {"p1", "p2"}
\* feature.id?.toString() of an event is one of these, or "" (falsy) for a
\* feature without id.
GeometryTypes == {"Polygon", "LineString"}

ptA == <<0, 0>>
ptB == <<6, 0>>
ptC == <<0, 6>>
ptD == <<6, 12>>

\* Rings as the draw control delivers them ([lng, lat] pairs, closed), and a
\* closed ring with only two different vertices.
RingABC == <<ptA, ptB, ptC, ptA>>
RingABD == <<ptA, ptB, ptD, ptA>>
RingAB == <<ptA, ptB, ptA>>
\* A ring of one point: nothing is left to sample.
RingA == <<ptA>>
Rings == {RingABC, RingABD, RingAB, RingA}

\* hourly.temperature_2m[0] of the provider for a place: the first hour of
\* the day's series, the same value for every request of a session.
ProviderTemp(lat, lon) ==
    CASE <<lon, lat>> = ptA -> 9
      [] <<lon, lat>> = ptB -> 25
      [] <<lon, lat>> = ptC -> 25
      [] OTHER -> 9

\* Outcomes of one fetch(url) followed by res.json():
\*   reject   fetch() rejects (network error)
\*   notjson  res.json() rejects (the body is not JSON)
\*   json     a JSON body; isArray says whether data.hourly.temperature_2m is an
\*            array, len is its length and first its element 0 (a number or null).
Responses(lat, lon) ==
    {[kind |-> "reject", isArray |-> FALSE, first |-> Null, len |-> 0],
     [kind |-> "notjson", isArray |-> FALSE, first |-> Null, len |-> 0],
     [kind |-> "json", isArray |-> FALSE, first |-> Null, len |-> 0],
     [kind |-> "json", isArray |-> TRUE, first |-> Null, len |-> 0],
     [kind |-> "json", isArray |-> TRUE, first |-> Null, len |-> 2],
     [kind |-> "json", isArray |-> TRUE, first |-> [value |-> ProviderTemp(lat, lon)],
      len |-> 2]}

(* ----------------------------- arithmetic ---------------------------- *)
RECURSIVE SumSeq(_)
SumSeq(s) == IF s = <<>> THEN 0 ELSE Head(s) + SumSeq(Tail(s))

Rat(n, d) == [num |-> n, den |-> d]
RatLt(a, b) == a.num * b.den < b.num * a.den
RatEq(a, b) == a.num * b.den = b.num * a.den
RatOfInt(n) == Rat(n, 1)

VARIABLES
    passes,             \* outstanding handlePolygonDraw calls (suspended at an await)
    nextSerial,         \* number of the next handlePolygonDraw call
    generation,         \* id -> number and ring of the latest call started for the id
    sources,            \* map sources   `source-${id}`
    fillLayers,         \* map layers    `layer-${id}`
    outlineLayers,      \* map layers    `layer-${id}-outline`
    polygonTempMarkersRef, \* id -> marker recorded for the id
    mapMarkers,         \* markers attached to the map
    polygonData,        \* id -> { avgTemp, centroid }
    polygonAvgTemp,     \* component state
    polygonCentroid,    \* component state
    cmds,               \* renderer commands issued by the last handler
    lastEvent           \* the last handler that ran

polyVars == <<passes, nextSerial, generation, sources, fillLayers, outlineLayers,
              polygonTempMarkersRef, mapMarkers, polygonData, polygonAvgTemp,
              polygonCentroid, cmds, lastEvent>>

published == <<sources, fillLayers, outlineLayers, polygonTempMarkersRef,
               mapMarkers, polygonData>>

VARIABLES
    singleHandle,       \* slot of the Single handle
    rangeStart,         \* slot of the Range start handle
    rangeEnd,           \* slot of the Range end handle
    mode,               \* "single" | "range"
    dragState,          \* Null, or the handle a drag is bound to
    notified,           \* arguments of the last onTimeChange call
    zone,               \* the time zone the browser runs in
    lastInput,          \* the slider's handler that ran last
    isUpdatingPolygons  \* App.tsx: the flag handed to the slider as isLoading

timeVars == <<singleHandle, rangeStart, rangeEnd, mode, dragState, notified, zone,
              lastInput, isUpdatingPolygons>>

VARIABLES
    call                \* the last call of a pure helper: its arguments and result

\* History, kept by the behaviours of SpecPolygons only.
VARIABLES
    removed             \* ids whose last draw event was a delete event

VARIABLES
    dataSources,        \* Sidebar.tsx: the data sources with their threshold rules
    clock               \* Date.now()

sideVars == <<dataSources, clock>>

vars == <<polyVars, timeVars, call, removed, sideVars>>

(* ------------------------ MapView.tsx helpers ------------------------ *)
\* getTemperatureForCoordinate: null unless the series is a non-empty array;
\* every exception of fetch / json is caught.
getTemperatureForCoordinate_NoCatch(resp) ==
    IF resp.kind = "json"
    THEN IF resp.isArray /\ resp.len > 0 THEN resp.first ELSE Null
    ELSE Throws

getTemperatureForCoordinate(resp) ==
    IF resp.kind = "json"
    THEN IF resp.isArray /\ resp.len > 0 THEN resp.first ELSE Null
    ELSE Null

\* coordinates.slice(0, -1)
SliceDropLast(coords) == SubSeq(coords, 1, Len(coords) - 1)

pushTemperature_ZeroForNull(temperatures, temp) ==
    Append(temperatures, IF temp # Null THEN temp.value ELSE 0)

\* if (temp !== null) temperatures.push(temp)
pushTemperature(temperatures, temp) ==
    IF temp # Null THEN Append(temperatures, temp.value) ELSE temperatures

\* temperatures.reduce((sum, t) => sum + t, 0) / temperatures.length
Average(temperatures) == Rat(SumSeq(temperatures), Len(temperatures))

getTemperatureColor_InclusiveBounds(avgTemp) ==
    IF ~RatLt(RatOfInt(10), avgTemp) THEN "#ff0000"
    ELSE IF ~RatLt(RatOfInt(25), avgTemp) THEN "#0000ff"
    ELSE "#00ff00"

getTemperatureColor(avgTemp) ==
    IF RatLt(avgTemp, RatOfInt(10)) THEN "#ff0000"
    ELSE IF ~RatLt(avgTemp, RatOfInt(10)) /\ RatLt(avgTemp, RatOfInt(25)) THEN "#0000ff"
    ELSE "#00ff00"

RECURSIVE SumX(_)
SumX(coords) == IF coords = <<>> THEN 0 ELSE Head(coords)[1] + SumX(Tail(coords))
RECURSIVE SumY(_)
SumY(coords) == IF coords = <<>> THEN 0 ELSE Head(coords)[2] + SumY(Tail(coords))

calculateCentroid_CountAll(coords) ==
    LET count == Len(coords)
    IN  [x |-> Rat(SumX(SliceDropLast(coords)), count),
         y |-> Rat(SumY(SliceDropLast(coords)), count)]

calculateCentroid(coords) ==
    LET count == Len(coords) - 1
    IN  [x |-> Rat(SumX(SliceDropLast(coords)), count),
         y |-> Rat(SumY(SliceDropLast(coords)), count)]

\* getPolygonCentroid: the mean over every element of coords.
getPolygonCentroid(coords) ==
    LET len == Len(coords)
    IN  [x |-> Rat(SumX(coords), len), y |-> Rat(SumY(coords), len)]

\* One case of the switch in getPolygonColor.
RuleMatches(rule, avg) ==
    CASE rule.operator = ">" -> RatLt(RatOfInt(rule.value), avg)
      [] rule.operator = "<" -> RatLt(avg, RatOfInt(rule.value))
      [] rule.operator = ">=" -> ~RatLt(avg, RatOfInt(rule.value))
      [] rule.operator = "<=" -> ~RatLt(RatOfInt(rule.value), avg)
      [] rule.operator = "=" -> RatEq(avg, RatOfInt(rule.value))
      [] OTHER -> FALSE

RECURSIVE RuleLoop_LastMatch(_, _)
RuleLoop_LastMatch(avg, thresholds) ==
    IF thresholds = <<>> THEN "#cccccc"
    ELSE LET rest == RuleLoop_LastMatch(avg, Tail(thresholds))
         IN  IF rest # "#cccccc" THEN rest
             ELSE IF RuleMatches(Head(thresholds), avg) THEN Head(thresholds).color
             ELSE "#cccccc"

\* for (const rule of thresholds) ... return rule.color; after the loop the fallback.
RECURSIVE RuleLoop(_, _)
RuleLoop(avg, thresholds) ==
    IF thresholds = <<>> THEN "#cccccc"
    ELSE IF RuleMatches(Head(thresholds), avg) THEN Head(thresholds).color
    ELSE RuleLoop(avg, Tail(thresholds))

\* weatherData is [defined, values]: undefined, or an array of numbers.
getPolygonColor(weatherData, thresholds) ==
    IF ~weatherData.defined \/ Len(weatherData.values) = 0 THEN "#cccccc"
    ELSE RuleLoop(Average(weatherData.values), thresholds)

\* avgTemp.toFixed(2): the nearest hundredth, ties upward (values are >= 0 here).
toFixed2(avg) == (2 * 100 * avg.num + avg.den) \div (2 * avg.den)

(* ------------------------- renderer commands ------------------------- *)
Cmd(op, id) == [op |-> op, id |-> id]

RemoveLayerCmds(id) ==
    (IF fillLayers[id] # Null THEN <<Cmd("removeLayer", id)>> ELSE <<>>)
    \o (IF outlineLayers[id] # Null THEN <<Cmd("removeOutline", id)>> ELSE <<>>)
    \o (IF sources[id] # Null THEN <<Cmd("removeSource", id)>> ELSE <<>>)

RemoveMarkerCmds_Unchecked(id) == <<Cmd("marker.remove", id)>>

RemoveMarkerCmds(id) ==
    IF polygonTempMarkersRef[id] # Null THEN <<Cmd("marker.remove", id)>> ELSE <<>>

\* renderPolygonToMap: drop the id's layers and source when present, then add
\* the source, the fill layer and the outline layer.
renderPolygonToMap(id, coordinates, color, serial) ==
    /\ sources' = [sources EXCEPT ![id] = [coordinates |-> coordinates, pass |-> serial]]
    /\ fillLayers' = [fillLayers EXCEPT ![id] = [color |-> color, pass |-> serial]]
    /\ outlineLayers' = [outlineLayers EXCEPT ![id] = [color |-> "#000000", pass |-> serial]]

RenderCmds(id) ==
    RemoveLayerCmds(id)
    \o <<Cmd("addSource", id), Cmd("addLayer", id), Cmd("addOutline", id)>>

placeMarker_KeepExisting(id, centroid, avgTemp, color, serial) ==
    LET marker == [id |-> id, lngLat |-> centroid, text |-> toFixed2(avgTemp),
                   color |-> color, pass |-> serial]
    IN  IF polygonTempMarkersRef[id] # Null
        THEN UNCHANGED <<mapMarkers, polygonTempMarkersRef>>
        ELSE /\ mapMarkers' = mapMarkers \cup {marker}
             /\ polygonTempMarkersRef' = [polygonTempMarkersRef EXCEPT ![id] = marker]

placeMarker_NoRelease(id, centroid, avgTemp, color, serial) ==
    LET marker == [id |-> id, lngLat |-> centroid, text |-> toFixed2(avgTemp),
                   color |-> color, pass |-> serial]
    IN  /\ mapMarkers' = mapMarkers \cup {marker}
        /\ polygonTempMarkersRef' = [polygonTempMarkersRef EXCEPT ![id] = marker]

\* Lines 178-198: replace the id's marker by one at the centroid.
placeMarker(id, centroid, avgTemp, color, serial) ==
    LET marker == [id |-> id, lngLat |-> centroid, text |-> toFixed2(avgTemp),
                   color |-> color, pass |-> serial]
        old == IF polygonTempMarkersRef[id] # Null THEN {polygonTempMarkersRef[id]} ELSE {}
    IN  /\ mapMarkers' = (mapMarkers \ old) \cup {marker}
        /\ polygonTempMarkersRef' = [polygonTempMarkersRef EXCEPT ![id] = marker]

MarkerCmds(id) == RemoveMarkerCmds(id) \o <<Cmd("marker.addTo", id)>>

(* --------------------------- handlePolygonDraw ----------------------- *)
Event(kind, id, serial, p) ==
    [kind |-> kind, id |-> id, serial |-> serial,
     again |-> (kind = "delete" /\ lastEvent.kind = "delete" /\ lastEvent.id = id),
     coordinates |-> p.coordinates, samples |-> p.samples]

NoPass == [coordinates |-> <<>>, samples |-> <<>>]

\* Lines 163-210: the code after the sampling loop, run without suspension.
Finish(p) ==
    IF Len(p.temperatures) > 0
    THEN LET avgTemp == Average(p.temperatures)
             centroid == calculateCentroid(p.coordinates)
             polygonColor == getTemperatureColor(avgTemp)
         IN  /\ polygonAvgTemp' = avgTemp
             /\ polygonCentroid' = centroid
             /\ renderPolygonToMap(p.id, p.coordinates, polygonColor, p.serial)
             /\ placeMarker(p.id, centroid, avgTemp, polygonColor, p.serial)
             /\ polygonData' = [polygonData EXCEPT ![p.id] =
                                  [avgTemp |-> avgTemp, centroid |-> centroid,
                                   pass |-> p.serial]]
             /\ cmds' = RenderCmds(p.id) \o MarkerCmds(p.id)
    ELSE /\ polygonAvgTemp' = Null
         /\ polygonCentroid' = Null
         /\ cmds' = <<>>
         /\ UNCHANGED published

\* Lines 151-157: the call up to its first await. With no vertex to sample the
\* call runs to its end inside the event handler.
handlePolygonDraw(coordinates, polygonId, kind) ==
    LET p == [serial |-> nextSerial, id |-> polygonId, coordinates |-> coordinates,
              idx |-> 0, samples |-> <<>>, temperatures |-> <<>>]
    IN  /\ nextSerial <= MaxPasses
        /\ nextSerial' = nextSerial + 1
        /\ generation' = [generation EXCEPT ![polygonId] =
                            [serial |-> nextSerial, coordinates |-> coordinates]]
        /\ IF SliceDropLast(coordinates) = <<>>
           THEN /\ Finish(p)
                /\ passes' = passes
           ELSE /\ passes' = passes \cup {p}
                /\ cmds' = <<>>
                /\ UNCHANGED <<published, polygonAvgTemp, polygonCentroid>>
        /\ lastEvent' = Event(kind, polygonId, nextSerial, p)

\* getTemperatureForCoordinate(lat, lng) of the vertex [lng, lat] a pass waits for.
PendingFetch(p) ==
    LET v == SliceDropLast(p.coordinates)[p.idx + 1]
    IN  [lat |-> v[2], lon |-> v[1]]

\* The getTemperatureForCoordinate calls an outstanding pass has made: one for
\* every sample it holds and the one it awaits.
Issued(p) == p.idx + 1

\* The await of line 157 resumes: the fetch of vertex idx+1 has settled.
FetchReturn(p, resp) ==
    LET temp == getTemperatureForCoordinate(resp)
        q == [p EXCEPT !.idx = p.idx + 1,
                       !.samples = Append(p.samples, temp),
                       !.temperatures = pushTemperature(p.temperatures, temp)]
    IN  /\ p \in passes
        /\ passes' = IF temp # Throws /\ q.idx < Len(SliceDropLast(p.coordinates))
                     THEN (passes \ {p}) \cup {q}
                     ELSE passes \ {p}
        /\ IF temp = Throws
           THEN \* an exception leaving the awaited call rejects handlePolygonDraw
                /\ lastEvent' = Event("rejected", p.id, p.serial, p)
                /\ cmds' = <<>>
                /\ UNCHANGED <<published, polygonAvgTemp, polygonCentroid>>
           ELSE IF q.idx < Len(SliceDropLast(p.coordinates))
           THEN /\ lastEvent' = Event("sampled", "", 0, NoPass)
                /\ cmds' = <<>>
                /\ UNCHANGED <<published, polygonAvgTemp, polygonCentroid>>
           ELSE /\ lastEvent' = Event("done", p.id, p.serial, q)
                /\ Finish(q)
        /\ UNCHANGED <<nextSerial, generation>>

(* ----------------------------- draw events --------------------------- *)
\* map.on("draw.create"): features[0] only.
drawCreate(id, gtype, coordinates) ==
    IF gtype # "Polygon" \/ id = ""
    THEN UNCHANGED polyVars
    ELSE handlePolygonDraw(coordinates, id, "create")

drawUpdate_OpenRing(id, gtype, coordinates) ==
    IF gtype # "Polygon" \/ id = ""
    THEN UNCHANGED polyVars
    ELSE handlePolygonDraw(SliceDropLast(coordinates), id, "update")

\* map.on("draw.update"), one feature of e.features.
drawUpdate(id, gtype, coordinates) ==
    IF gtype # "Polygon" \/ id = ""
    THEN UNCHANGED polyVars
    ELSE handlePolygonDraw(coordinates, id, "update")

drawDelete_ResetsData(id) ==
    IF id = ""
    THEN UNCHANGED polyVars
    ELSE /\ polygonTempMarkersRef' = [polygonTempMarkersRef EXCEPT ![id] = Null]
         /\ mapMarkers' = mapMarkers \
                (IF polygonTempMarkersRef[id] # Null THEN {polygonTempMarkersRef[id]} ELSE {})
         /\ fillLayers' = [fillLayers EXCEPT ![id] = Null]
         /\ outlineLayers' = [outlineLayers EXCEPT ![id] = Null]
         /\ sources' = [sources EXCEPT ![id] = Null]
         /\ polygonData' = [other \in Ids |-> Null]
         /\ cmds' = RemoveMarkerCmds(id) \o RemoveLayerCmds(id)
         /\ lastEvent' = Event("delete", id, 0, NoPass)
         /\ UNCHANGED <<passes, nextSerial, generation, polygonAvgTemp, polygonCentroid>>

\* map.on("draw.delete"), one feature of e.features.
drawDelete(id) ==
    IF id = ""
    THEN UNCHANGED polyVars
    ELSE /\ polygonTempMarkersRef' = [polygonTempMarkersRef EXCEPT ![id] = Null]
         /\ mapMarkers' = mapMarkers \
                (IF polygonTempMarkersRef[id] # Null THEN {polygonTempMarkersRef[id]} ELSE {})
         /\ fillLayers' = [fillLayers EXCEPT ![id] = Null]
         /\ outlineLayers' = [outlineLayers EXCEPT ![id] = Null]
         /\ sources' = [sources EXCEPT ![id] = Null]
         /\ polygonData' = [polygonData EXCEPT ![id] = Null]
         /\ cmds' = RemoveMarkerCmds(id) \o RemoveLayerCmds(id)
         /\ lastEvent' = Event("delete", id, 0, NoPass)
         /\ UNCHANGED <<passes, nextSerial, generation, polygonAvgTemp, polygonCentroid>>

(* ======================== TimelineSlider.tsx ========================= *)
\* 30 days of 24 hourly slots (generateTimelineData); today's midnight is slot 15 * 24.
HoursPerDay == 24
DaysShown == 30
DaysBefore == 15
totalHours == DaysShown * HoursPerDay
todayIndex == DaysBefore * HoursPerDay

\* Width of the slider track in pixels (getBoundingClientRect().width).
TrackWidth == 8
\* e.clientX - rect.left of a pointer event: on the track, left or right of it.
PointerOffsets == (0 - 1) .. (TrackWidth + 1)
\* new Date().getHours(): midnight, two hours of the night, an afternoon hour,
\* the last hour of the day.
Hours == {0, 1, 3, 13, HoursPerDay - 1}
HandleTypes == {"single", "start", "end"}
Modes == {"single", "range"}

Max(a, b) == IF a >= b THEN a ELSE b
Min(a, b) == IF a <= b THEN a ELSE b
Abs(a) == IF a < 0 THEN 0 - a ELSE a

getMousePosition_NoClamp(offset) ==
    (2 * offset * (totalHours - 1) + TrackWidth) \div (2 * TrackWidth)

\* Math.round((percent / 100) * (totalHours - 1)) with percent =
\* max(0, min(100, offset / width * 100)): the nearest slot, halves upward.
getMousePosition(offset) ==
    LET c == Max(0, Min(TrackWidth, offset))
    IN  (2 * c * (totalHours - 1) + TrackWidth) \div (2 * TrackWidth)

\* Time zones: one without clock changes, one whose clocks go from 02:00 to
\* 03:00 tomorrow.
NoDst == [kind |-> "none", day |-> 0]
SpringTomorrow == [kind |-> "spring", day |-> DaysBefore + 1]
Zones == {NoDst, SpringTomorrow}

\* The instant, in hours since slot 0, of local time `hour`:00 on day `day`, as
\* Date.prototype.setHours resolves it: a local time the clock change skips is
\* taken an hour later.
LocalToInstant(day, hour) ==
    LET d == day + (hour \div HoursPerDay)
        h == hour % HoursPerDay
        plain == d * HoursPerDay + h
    IN  IF zone.kind = "spring" /\ (d > zone.day \/ (d = zone.day /\ h >= 3))
        THEN plain - 1
        ELSE plain

\* Date.prototype.getHours of timelineData[i].date.
LocalHour(i) ==
    IF zone.kind = "spring" /\ i \div HoursPerDay = zone.day /\ i % HoursPerDay = 2
    THEN 3
    ELSE i % HoursPerDay

\* timelineData[i].date: hour i % 24 of day i \div 24 (lines 38-41).
SlotTime(i) == LocalToInstant(i \div HoursPerDay, i % HoursPerDay)

\* endTime = new Date(startTime); endTime.setHours(endTime.getHours() + 1)
HourAfter(i) == LocalToInstant(i \div HoursPerDay, LocalHour(i) + 1)

\* The notify effect (lines 117-130): the arguments of onTimeChange.
Window(sh, rs, re, m) ==
    IF m = "single"
    THEN [startTime |-> SlotTime(sh), endTime |-> HourAfter(sh), mode |-> m,
          startSlot |-> sh, endSlot |-> sh]
    ELSE [startTime |-> SlotTime(rs), endTime |-> SlotTime(re), mode |-> m,
          startSlot |-> rs, endSlot |-> re]

\* App.tsx handleTimeChange, the slider's onTimeChange: it marks the polygons
\* as updating (the timeline state it also stores is read nowhere).
handleTimeChange == isUpdatingPolygons' = TRUE

Commit_HandlesOnly(sh, rs, re, m, ds) ==
    /\ singleHandle' = sh
    /\ rangeStart' = rs
    /\ rangeEnd' = re
    /\ mode' = m
    /\ dragState' = ds
    /\ zone' = zone
    /\ IF <<sh, rs, re>> # <<singleHandle, rangeStart, rangeEnd>>
       THEN notified' = Window(sh, rs, re, m) /\ handleTimeChange
       ELSE UNCHANGED <<notified, isUpdatingPolygons>>

\* One handler's state updates, the render they cause and the notify effect,
\* which runs when one of singleHandle, rangeStart, rangeEnd, mode changed.
Commit(sh, rs, re, m, ds) ==
    /\ singleHandle' = sh
    /\ rangeStart' = rs
    /\ rangeEnd' = re
    /\ mode' = m
    /\ dragState' = ds
    /\ zone' = zone
    /\ IF <<sh, rs, re, m>> # <<singleHandle, rangeStart, rangeEnd, mode>>
       THEN notified' = Window(sh, rs, re, m) /\ handleTimeChange
       ELSE UNCHANGED <<notified, isUpdatingPolygons>>

handleMouseDown_UnlessLoading(handleType) ==
    /\ ~isUpdatingPolygons
    /\ (mode = "single") = (handleType = "single")
    /\ Commit(singleHandle, rangeStart, rangeEnd, mode, [type |-> handleType])

\* onMouseDown of a handle; only the handles of the active mode are rendered.
handleMouseDown(handleType) ==
    /\ (mode = "single") = (handleType = "single")
    /\ Commit(singleHandle, rangeStart, rangeEnd, mode, [type |-> handleType])

ClampStart_UpToEnd(newValue) == Max(0, Min(rangeEnd, newValue))

\* The clamped value a move / click gives the start and the end handle.
ClampStart(newValue) == Max(0, Min(rangeEnd - 1, newValue))
ClampEnd(newValue) == Max(rangeStart + 1, Min(totalHours - 1, newValue))

\* document mousemove listener, registered while dragState is set.
handleMouseMove(offset) ==
    LET newValue == getMousePosition(offset)
    IN  /\ dragState # Null
        /\ IF mode = "single"
           THEN Commit(Max(0, Min(totalHours - 1, newValue)), rangeStart, rangeEnd,
                       mode, dragState)
           ELSE IF dragState.type = "start"
           THEN Commit(singleHandle, ClampStart(newValue), rangeEnd, mode, dragState)
           ELSE IF dragState.type = "end"
           THEN Commit(singleHandle, rangeStart, ClampEnd(newValue), mode, dragState)
           ELSE Commit(singleHandle, rangeStart, rangeEnd, mode, dragState)

handleMouseUp_KeepsDrag ==
    /\ dragState # Null
    /\ Commit(singleHandle, rangeStart, rangeEnd, mode, dragState)

\* document mouseup listener, registered while dragState is set.
handleMouseUp ==
    /\ dragState # Null
    /\ Commit(singleHandle, rangeStart, rangeEnd, mode, Null)

handleSliderClick_NoIdleCheck(offset) ==
    LET newValue == getMousePosition(offset)
        distToStart == Abs(newValue - rangeStart)
        distToEnd == Abs(newValue - rangeEnd)
    IN  IF mode = "single"
        THEN Commit(newValue, rangeStart, rangeEnd, mode, dragState)
        ELSE IF distToStart < distToEnd
        THEN Commit(singleHandle, ClampStart(newValue), rangeEnd, mode, dragState)
        ELSE Commit(singleHandle, rangeStart, ClampEnd(newValue), mode, dragState)

\* onClick of the track.
handleSliderClick(offset) ==
    LET newValue == getMousePosition(offset)
        distToStart == Abs(newValue - rangeStart)
        distToEnd == Abs(newValue - rangeEnd)
    IN  IF dragState # Null
        THEN Commit(singleHandle, rangeStart, rangeEnd, mode, dragState)
        ELSE IF mode = "single"
        THEN Commit(newValue, rangeStart, rangeEnd, mode, dragState)
        ELSE IF distToStart < distToEnd
        THEN Commit(singleHandle, ClampStart(newValue), rangeEnd, mode, dragState)
        ELSE Commit(singleHandle, rangeStart, ClampEnd(newValue), mode, dragState)

goToNow_StartOnly(hour) ==
    LET now == todayIndex + hour
    IN  IF mode = "single"
        THEN Commit(now, rangeStart, rangeEnd, mode, dragState)
        ELSE Commit(singleHandle, now, rangeEnd, mode, dragState)

goToNow(hour) ==
    LET now == todayIndex + hour
    IN  IF mode = "single"
        THEN Commit(now, rangeStart, rangeEnd, mode, dragState)
        ELSE Commit(singleHandle, now, now + HoursPerDay, mode, dragState)

goToToday ==
    IF mode = "single"
    THEN Commit(todayIndex, rangeStart, rangeEnd, mode, dragState)
    ELSE Commit(singleHandle, todayIndex, todayIndex + HoursPerDay, mode, dragState)

setMode_ResetRange(m) ==
    Commit(singleHandle, todayIndex, todayIndex + HoursPerDay, m, dragState)

\* The two mode buttons.
setMode(m) == Commit(singleHandle, rangeStart, rangeEnd, m, dragState)

(* ============================ Sidebar.tsx ============================ *)
\* Date.now() when the sidebar is mounted, in milliseconds, and the
\* milliseconds that pass in a behaviour.
FirstInstant == 100
MaxTicks == 2
\* Longest list of threshold rules a data source is given.
MaxThresholds == 5

\* ids.find(ds => ds.id === sourceId): the first data source of the id, if any.
FindSource(sourceId) ==
    LET hits == {i \in 1..Len(dataSources) : dataSources[i].id = sourceId}
    IN  IF hits = {} THEN Null
        ELSE dataSources[CHOOSE i \in hits : \A j \in hits : i <= j]

\* updateDataSource(sourceId, { thresholds })
updateDataSource(sourceId, newThresholds) ==
    dataSources' = [i \in 1..Len(dataSources) |->
                      IF dataSources[i].id = sourceId
                      THEN [dataSources[i] EXCEPT !.thresholds = newThresholds]
                      ELSE dataSources[i]]

addThreshold(sourceId) ==
    LET newThreshold == [id |-> clock, operator |-> "<", value |-> 0,
                         color |-> "#808080"]
        source == FindSource(sourceId)
        old == IF source = Null THEN <<>> ELSE source.thresholds
    IN  updateDataSource(sourceId, Append(old, newThreshold))

\* thresholds.filter(threshold => threshold.id !== thresholdId)
RECURSIVE FilterOut(_, _)
FilterOut(rules, thresholdId) ==
    IF rules = <<>> THEN <<>>
    ELSE IF Head(rules).id = thresholdId THEN FilterOut(Tail(rules), thresholdId)
    ELSE <<Head(rules)>> \o FilterOut(Tail(rules), thresholdId)

removeThreshold(sourceId, thresholdId) ==
    LET source == FindSource(sourceId)
    IN  IF source = Null \/ Len(source.thresholds) <= 1
        THEN UNCHANGED dataSources
        ELSE updateDataSource(sourceId, FilterOut(source.thresholds, thresholdId))

(* ------------------------------ behaviour ---------------------------- *)
InitPoly ==
    /\ passes = {}
    /\ nextSerial = 1
    /\ generation = [id \in Ids |-> [serial |-> 0, coordinates |-> <<>>]]
    /\ sources = [id \in Ids |-> Null]
    /\ fillLayers = [id \in Ids |-> Null]
    /\ outlineLayers = [id \in Ids |-> Null]
    /\ polygonTempMarkersRef = [id \in Ids |-> Null]
    /\ mapMarkers = {}
    /\ polygonData = [id \in Ids |-> Null]
    /\ polygonAvgTemp = Null
    /\ polygonCentroid = Null
    /\ cmds = <<>>
    /\ lastEvent = [kind |-> "init", id |-> "", serial |-> 0, again |-> FALSE,
                    coordinates |-> <<>>, samples |-> <<>>]

\* The slider as mounted at local hour `hour` in time zone `z`; the notify
\* effect has run once.
InitTimelineIn(hour, z) ==
    /\ zone = z
    /\ singleHandle = todayIndex + hour
    /\ rangeStart = todayIndex
    /\ rangeEnd = todayIndex + HoursPerDay
    /\ mode = "single"
    /\ dragState = Null
    /\ notified = Window(todayIndex + hour, todayIndex, todayIndex + HoursPerDay, "single")
    /\ isUpdatingPolygons = TRUE
    /\ lastInput = "mount"

InitTimeline(hour) == InitTimelineIn(hour, NoDst)

\* Sidebar.tsx, lines 78-92: the default data source.
InitSidebar ==
    /\ dataSources =
         <<[id |-> "default-open-meteo",
            thresholds |->
               <<[id |-> 1, operator |-> "<", value |-> 10, color |-> "#FF0000"],
                 [id |-> 2, operator |-> ">=", value |-> 10, color |-> "#0000FF"],
                 [id |-> 3, operator |-> ">=", value |-> 25, color |-> "#00FF00"]>>]>>
    /\ clock = FirstInstant

InitCall == call = [fn |-> "none", done |-> TRUE] /\ removed = {} /\ InitSidebar

\* Events of the draw control for the features `ids` (and for a feature without
\* id). The control gives every feature it creates an id of its own.
DrawCreateIn(ids, gtypes, rings) ==
    /\ \E id \in ids, g \in gtypes, r \in rings :
         /\ id \in Ids => generation[id].serial = 0
         /\ drawCreate(id, g, r)
    /\ UNCHANGED <<timeVars, call, sideVars>>
DrawUpdateIn(ids, gtypes, rings) ==
    /\ \E id \in ids, g \in gtypes, r \in rings : drawUpdate(id, g, r)
    /\ UNCHANGED <<timeVars, call, sideVars>>
DrawDeleteIn(ids) ==
    /\ \E id \in ids : drawDelete(id)
    /\ UNCHANGED <<timeVars, call, sideVars>>
DrawCreateOf(ids) == DrawCreateIn(ids \cup {""}, GeometryTypes, Rings)
DrawUpdateOf(ids) == DrawUpdateIn(ids \cup {""}, GeometryTypes, Rings)
DrawDeleteOf(ids) == DrawDeleteIn(ids \cup {""})

\* One polygon is drawn, edited and deleted.
DrawCreate == DrawCreateOf({"p1"}) /\ UNCHANGED removed
DrawUpdate == DrawUpdateOf({"p1"}) /\ UNCHANGED removed
DrawDelete == DrawDeleteOf({"p1"}) /\ UNCHANGED removed
\* A request that fails or is answered with the temperature of the place.
Answers(lat, lon) ==
    {resp \in Responses(lat, lon) : resp.kind = "reject" \/ resp.first # Null}

\* An awaited fetch settles, with any outcome or with one of Answers only.
FetchSettlesFrom(answersOnly) ==
    /\ \E p \in passes :
         LET lat == PendingFetch(p).lat
             lon == PendingFetch(p).lon
         IN  \E resp \in (IF answersOnly THEN Answers(lat, lon) ELSE Responses(lat, lon)) :
                FetchReturn(p, resp)
    /\ UNCHANGED <<timeVars, call, removed, sideVars>>
FetchSettles == FetchSettlesFrom(FALSE)

NextPoly == DrawCreate \/ DrawUpdate \/ DrawDelete \/ FetchSettles

\* The map: draw events and fetch completions, the slider left as mounted.
Init == InitPoly /\ InitTimeline(0) /\ InitCall
Spec == Init /\ [][NextPoly]_vars

\* The ids whose last draw event, after the step, is a delete event.
Track ==
    removed' = CASE lastEvent'.kind = "delete" -> removed \cup {lastEvent'.id}
                 [] lastEvent'.kind \in {"create", "update"} -> removed \ {lastEvent'.id}
                 [] OTHER -> removed

\* Two polygons, both triangles, are drawn, edited and deleted, their passes
\* interleaved.
Triangles == {RingABC}
CreateAny == DrawCreateIn(Ids, {"Polygon"}, Triangles) /\ Track
UpdateAny == DrawUpdateIn(Ids, {"Polygon"}, Triangles) /\ Track
DeleteAny == DrawDeleteIn(Ids) /\ Track
FetchAnswered == FetchSettlesFrom(TRUE)
NextPolygons == CreateAny \/ UpdateAny \/ DeleteAny \/ FetchAnswered
SpecPolygons == Init /\ [][NextPolygons]_vars

\* One triangle is drawn, edited and deleted, and the fetches settle in the
\* end (the provider answers, the request fails or the browser gives it up):
\* while a fetch is awaited, some awaited fetch settles.
CreateOne == DrawCreateIn({"p1"}, {"Polygon"}, Triangles) /\ UNCHANGED removed
UpdateOne == DrawUpdateIn({"p1"}, {"Polygon"}, Triangles) /\ UNCHANGED removed
DeleteOne == DrawDeleteIn({"p1"}) /\ UNCHANGED removed
NextSampling == CreateOne \/ UpdateOne \/ DeleteOne \/ FetchAnswered
EveryFetchSettles == WF_vars(FetchAnswered)
SpecFetchesSettle == Init /\ [][NextSampling]_vars /\ EveryFetchSettles

MouseDown ==
    /\ \E h \in HandleTypes : handleMouseDown(h)
    /\ lastInput' = "down"
    /\ UNCHANGED <<polyVars, call, removed, sideVars>>
MouseMoveAt(offsets) ==
    /\ \E x \in offsets : handleMouseMove(x)
    /\ lastInput' = "move"
    /\ UNCHANGED <<polyVars, call, removed, sideVars>>
MouseMove == MouseMoveAt(PointerOffsets)
MouseUp ==
    /\ handleMouseUp
    /\ lastInput' = "up"
    /\ UNCHANGED <<polyVars, call, removed, sideVars>>
SliderClickAt(offsets) ==
    /\ \E x \in offsets : handleSliderClick(x)
    /\ lastInput' = "click"
    /\ UNCHANGED <<polyVars, call, removed, sideVars>>
SliderClick == SliderClickAt(PointerOffsets)
GoToNowAt(hours) ==
    /\ \E h \in hours : goToNow(h)
    /\ lastInput' = "now"
    /\ UNCHANGED <<polyVars, call, removed, sideVars>>
GoToNow == GoToNowAt(Hours)
GoToToday ==
    /\ goToToday
    /\ lastInput' = "today"
    /\ UNCHANGED <<polyVars, call, removed, sideVars>>
SetMode ==
    /\ \E m \in Modes : setMode(m)
    /\ lastInput' = "mode"
    /\ UNCHANGED <<polyVars, call, removed, sideVars>>

NextTimeline ==
    MouseDown \/ MouseMove \/ MouseUp \/ SliderClick \/ GoToNow \/ GoToToday \/ SetMode

\* The slider: pointer, click, shortcut and mode events, the map left empty.
InitSlider == InitPoly /\ (\E h \in Hours : InitTimeline(h)) /\ InitCall
SpecTimeline == InitSlider /\ [][NextTimeline]_vars

\* The slider in a time zone with or without a clock change, mounted and used
\* in the night hours: drags, the Now shortcut and mode switches.
NightHours == {1, 3}
NextZones == MouseDown \/ MouseMove \/ MouseUp \/ GoToNowAt(NightHours) \/ SetMode
InitZones ==
    InitPoly /\ (\E h \in NightHours, z \in Zones : InitTimelineIn(h, z)) /\ InitCall
SpecZones == InitZones /\ [][NextZones]_vars

\* The application: the slider, mounted in the afternoon and used at the two
\* ends of its track, while a triangle is drawn and its fetches settle.
TrackEnds == {0, TrackWidth}
Afternoon == {13}
MoveToEnd == MouseMoveAt(TrackEnds)
ClickAtEnd == SliderClickAt(TrackEnds)
NowAfternoon == GoToNowAt(Afternoon)
NextApp ==
    \/ MouseDown \/ MoveToEnd \/ MouseUp \/ ClickAtEnd \/ NowAfternoon \/ GoToToday
    \/ SetMode
    \/ CreateOne \/ FetchAnswered
InitApp == InitPoly /\ (\E h \in Afternoon : InitTimeline(h)) /\ InitCall
SpecApp == InitApp /\ [][NextApp]_vars /\ EveryFetchSettles


(* ----------------------------- the sidebar ---------------------------- *)
SourceIds == {dataSources[i].id : i \in 1..Len(dataSources)}
RuleIdsOf(sourceId) ==
    LET source == FindSource(sourceId)
    IN  {source.thresholds[i].id : i \in 1..Len(source.thresholds)}

\* "Add Rule" of a data source.
AddThreshold ==
    /\ \E sourceId \in SourceIds :
         /\ Len(FindSource(sourceId).thresholds) < MaxThresholds
         /\ addThreshold(sourceId)
    /\ UNCHANGED <<polyVars, timeVars, call, removed, clock>>
\* The remove button of a rule of a data source.
RemoveThreshold ==
    /\ \E sourceId \in SourceIds :
         \E thresholdId \in RuleIdsOf(sourceId) : removeThreshold(sourceId, thresholdId)
    /\ UNCHANGED <<polyVars, timeVars, call, removed, clock>>
\* A millisecond passes.
Tick ==
    /\ clock < FirstInstant + MaxTicks
    /\ clock' = clock + 1
    /\ UNCHANGED <<polyVars, timeVars, call, removed, dataSources>>

NextSidebar == AddThreshold \/ RemoveThreshold \/ Tick
SpecSidebar == Init /\ [][NextSidebar]_vars

(* --------------------- calls of the pure helpers ---------------------- *)
\* Longest threshold list handed to getPolygonColor.
MaxRules == 2
\* Aggregates handed to getTemperatureColor: n / d with |n| <= MaxTemp * d.
MaxDen == 4
MaxTemp == 30

Operators == {"<", "<=", ">", ">=", "="}
RuleSet == [operator : Operators, value : {10, 25}, color : {"#FF0000", "#00FF00"}]
SeqsUpTo(S, n) == UNION {[1..k -> S] : k \in 0..n}
\* The thresholds of the default data source (Sidebar.tsx).
DefaultThresholds ==
    <<[operator |-> "<", value |-> 10, color |-> "#FF0000"],
      [operator |-> ">=", value |-> 10, color |-> "#0000FF"],
      [operator |-> ">=", value |-> 25, color |-> "#00FF00"]>>
RuleLists == SeqsUpTo(RuleSet, MaxRules) \cup {DefaultThresholds}
WeatherInputs ==
    {[defined |-> FALSE, values |-> <<>>]}
    \cup {[defined |-> TRUE, values |-> v] : v \in SeqsUpTo({9, 10, 11, 25}, 2)}
AvgInputs ==
    {Rat(n, d) : n \in (0 - MaxTemp * MaxDen) .. (MaxTemp * MaxDen), d \in 1..MaxDen}

Points == {ptA, ptB, ptC, ptD}
\* Rings of three or four pairwise different vertices, without the closing point.
OpenRings ==
    {r \in [1..3 -> Points] \cup [1..4 -> Points] :
        \A i, j \in DOMAIN r : i # j => r[i] # r[j]}
CloseRing(r) == Append(r, r[1])
\* A closed ring that passes through its first vertex once more.
RepeatRings == {<<ptA, ptB, ptA, ptC, ptA>>}
CentroidInputs == OpenRings \cup {CloseRing(r) : r \in OpenRings} \cup RepeatRings

\* A call not yet made: the helper's name and its arguments.
PendingCalls ==
    {[fn |-> "getPolygonColor", done |-> FALSE, weatherData |-> w, thresholds |-> t] :
        w \in WeatherInputs, t \in RuleLists}
    \cup {[fn |-> "getTemperatureColor", done |-> FALSE, avgTemp |-> a] : a \in AvgInputs}
    \cup {[fn |-> f, done |-> FALSE, coords |-> r] :
            f \in {"calculateCentroid", "getPolygonCentroid"}, r \in CentroidInputs}

Return(value) ==
    /\ ~call.done
    /\ call' = [fn |-> call.fn, done |-> TRUE, args |-> call, result |-> value]
    /\ UNCHANGED <<polyVars, timeVars, removed, sideVars>>

CallGetPolygonColor ==
    /\ call.fn = "getPolygonColor"
    /\ Return(getPolygonColor(call.weatherData, call.thresholds))
CallGetTemperatureColor ==
    /\ call.fn = "getTemperatureColor"
    /\ Return(getTemperatureColor(call.avgTemp))
CallCalculateCentroid ==
    /\ call.fn = "calculateCentroid"
    /\ Return(calculateCentroid(call.coords))
CallGetPolygonCentroid ==
    /\ call.fn = "getPolygonCentroid"
    /\ Return(getPolygonCentroid(call.coords))

NextPure ==
    CallGetPolygonColor \/ CallGetTemperatureColor \/ CallCalculateCentroid
    \/ CallGetPolygonCentroid

\* The pure helpers applied to arguments drawn from the input sets.
InitPure ==
    InitPoly /\ InitTimeline(0) /\ call \in PendingCalls /\ removed = {} /\ InitSidebar
SpecPure == InitPure /\ [][NextPure]_vars

(* ============================== claims =============================== *)
\* What the claims speak about.
Known(id) ==
    \/ polygonTempMarkersRef[id] # Null
    \/ fillLayers[id] # Null
    \/ outlineLayers[id] # Null
    \/ sources[id] # Null
    \/ polygonData[id] # Null

Outstanding(id) == \E p \in passes : p.id = id

\* A closed ring with at least three different vertices before its closing point.
DistinctVertices(ring) == {ring[i] : i \in 1..Len(ring)}
IsClosed(ring) == Len(ring) >= 2 /\ ring[1] = ring[Len(ring)]
ValidRing(ring) == IsClosed(ring) /\ Cardinality(DistinctVertices(ring)) >= 3

Present(samples) == {i \in 1..Len(samples) : samples[i] # Null}
RECURSIVE SumOver(_, _)
SumOver(f, S) ==
    IF S = {} THEN 0
    ELSE LET i == CHOOSE j \in S : TRUE IN f[i] + SumOver(f, S \ {i})
PresentSum(samples) == SumOver([i \in 1..Len(samples) |->
                                  IF samples[i] # Null THEN samples[i].value ELSE 0],
                               Present(samples))
RECURSIVE PresentValues(_)
PresentValues(samples) ==
    IF samples = <<>> THEN <<>>
    ELSE IF Head(samples) = Null THEN PresentValues(Tail(samples))
    ELSE <<Head(samples).value>> \o PresentValues(Tail(samples))

\* C1: a sampling pass that completes after a newer update of the same polygon
\* was applied, and after that update's own pass has ended, publishes nothing:
\* no source, layer, marker or stored data of the polygon carries its result.
C1_StalePassDiscarded ==
    \A id \in Ids :
        (/\ lastEvent.kind = "done"
         /\ lastEvent.id = id
         /\ lastEvent.serial < generation[id].serial
         /\ ValidRing(lastEvent.coordinates)
         /\ ValidRing(generation[id].coordinates)
         /\ ~Outstanding(id))
        => /\ sources[id] # Null => sources[id].pass # lastEvent.serial
           /\ fillLayers[id] # Null => fillLayers[id].pass # lastEvent.serial
           /\ polygonTempMarkersRef[id] # Null =>
                polygonTempMarkersRef[id].pass # lastEvent.serial
           /\ polygonData[id] # Null => polygonData[id].pass # lastEvent.serial

\* C2: the range start is below the range end in every state of the slider,
\* and every Range notification carries a start slot below its end slot.
C2_RangeOrdered ==
    /\ rangeStart < rangeEnd
    /\ notified.mode = "range" => notified.startSlot < notified.endSlot

\* C2 witness: a drag of the start handle was clamped right below the end
\* handle and the notification of that move went out.
C2_Witness ==
    /\ mode = "range"
    /\ dragState # Null
    /\ dragState.type = "start"
    /\ rangeStart = rangeEnd - 1
    /\ notified.mode = "range"
    /\ notified.startSlot = rangeStart
    /\ notified.endSlot = rangeEnd

\* The color band of an aggregate n / d (d > 0).
Band(avg) ==
    IF avg.num < 10 * avg.den THEN "#ff0000"
    ELSE IF avg.num < 25 * avg.den THEN "#0000ff"
    ELSE "#00ff00"

\* C3: what is published for a polygon comes from one pass over one ring: the
\* source, both layers, the marker and the stored data carry the same pass, the
\* fill and label color is the band of the stored aggregate, the label is that
\* aggregate, and the marker sits at the stored centroid, which is the mean of
\* the rendered ring's vertices before its closing point.
C3_PublishedFromOnePass ==
    \A id \in Ids :
        LET s == sources[id]
            f == fillLayers[id]
            o == outlineLayers[id]
            m == polygonTempMarkersRef[id]
            d == polygonData[id]
        IN  IF d = Null
            THEN s = Null /\ f = Null /\ o = Null /\ m = Null
            ELSE /\ s # Null /\ f # Null /\ o # Null /\ m # Null
                 /\ s.pass = d.pass /\ f.pass = d.pass /\ o.pass = d.pass
                 /\ m.pass = d.pass
                 /\ m \in mapMarkers
                 /\ f.color = Band(d.avgTemp)
                 /\ m.color = f.color
                 /\ m.text = toFixed2(d.avgTemp)
                 /\ m.lngLat = d.centroid
                 /\ LET n == Len(s.coordinates) - 1
                    IN  /\ d.centroid.x.num * n
                             = SumX(SubSeq(s.coordinates, 1, n)) * d.centroid.x.den
                        /\ d.centroid.y.num * n
                             = SumY(SubSeq(s.coordinates, 1, n)) * d.centroid.y.den

\* C3 witness: a polygon published by its first pass was published again by
\* its second pass, with another ring.
C3_Witness ==
    \E id \in Ids :
        /\ polygonData[id] # Null
        /\ polygonData[id].pass = 2
        /\ lastEvent.kind = "done"
        /\ lastEvent.serial = 2
        /\ Cmd("marker.remove", id) \in {cmds[i] : i \in 1..Len(cmds)}
        /\ sources[id].coordinates = RingABD

\* C4: a delete event for an id that has no marker, layer, source or stored
\* data changes nothing and issues no renderer command, and after any delete
\* event the id has none of them, so that a second delete in succession is
\* such an event.
C4_RemoveIdempotent ==
    [][\A id \in Ids :
         drawDelete(id) =>
            /\ ~Known(id)'
            /\ ~Known(id) =>
                 /\ cmds' = <<>>
                 /\ UNCHANGED <<published, passes, nextSerial, generation,
                                polygonAvgTemp, polygonCentroid>>]_vars

\* C4 witness: an id that had been published was deleted twice in succession.
C4_Witness ==
    /\ lastEvent.kind = "delete"
    /\ lastEvent.again
    /\ cmds = <<>>
    /\ generation[lastEvent.id].serial > 0
    /\ ~Known(lastEvent.id)

\* C5: no sampling pass is ever started for a ring with fewer than three
\* different vertices: such a create or update event is rejected.
C5_InvalidGeometryRejected ==
    /\ \A p \in passes : ValidRing(p.coordinates)
    /\ lastEvent.kind \in {"create", "update"} => ValidRing(lastEvent.coordinates)

\* C6: within a pass a failed fetch leaves exactly its own vertex without a
\* sample: the pass is never rejected, it samples every vertex before the
\* closing point, the values kept are exactly the present samples in vertex
\* order, and they are what the aggregate sums.
C6_FailuresStayLocal ==
    /\ lastEvent.kind # "rejected"
    /\ \A p \in passes :
         /\ Len(p.samples) = p.idx
         /\ p.idx < Len(p.coordinates) - 1
         /\ p.temperatures = PresentValues(p.samples)
    /\ lastEvent.kind = "done" =>
         /\ Len(lastEvent.samples) = Len(lastEvent.coordinates) - 1
         /\ Present(lastEvent.samples) # {} =>
              /\ polygonAvgTemp # Null
              /\ polygonAvgTemp.num = PresentSum(lastEvent.samples)

\* C6 witness: a pass ended whose first fetch failed and whose later fetches
\* delivered values.
C6_Witness ==
    /\ lastEvent.kind = "done"
    /\ Len(lastEvent.samples) = 3
    /\ lastEvent.samples[1] = Null
    /\ lastEvent.samples[2] # Null
    /\ lastEvent.samples[3] # Null
    /\ polygonAvgTemp # Null

\* The last event ended a pass: its last fetch settled, or it had no vertex
\* to fetch.
PassEnded ==
    \/ lastEvent.kind = "done"
    \/ /\ lastEvent.kind \in {"create", "update"}
       /\ Len(lastEvent.coordinates) <= 1

\* C7: the aggregate a pass ends with is the mean of its present samples, the
\* absent ones counting neither in the sum nor in the divisor, and it is absent
\* when no sample is present.
C7_AggregateIsMeanOfPresent ==
    PassEnded =>
        LET n == Cardinality(Present(lastEvent.samples))
        IN  IF n = 0
            THEN polygonAvgTemp = Null
            ELSE /\ polygonAvgTemp # Null
                 /\ polygonAvgTemp.den > 0
                 /\ polygonAvgTemp.num * n
                      = PresentSum(lastEvent.samples) * polygonAvgTemp.den

\* C7 witness: a pass ended with an absent sample between two different
\* present ones.
C7_Witness ==
    /\ lastEvent.kind = "done"
    /\ Len(lastEvent.samples) = 3
    /\ lastEvent.samples[1] # Null
    /\ lastEvent.samples[2] = Null
    /\ lastEvent.samples[3] # Null
    /\ lastEvent.samples[1] # lastEvent.samples[3]
    /\ polygonAvgTemp = Rat(34, 2)
    /\ fillLayers[lastEvent.id].color = "#0000ff"

\* The relation a threshold rule states, on an aggregate n / d (d > 0).
Satisfies(avg, rule) ==
    LET v == rule.value * avg.den
    IN  \/ rule.operator = "<" /\ avg.num < v
        \/ rule.operator = "<=" /\ avg.num <= v
        \/ rule.operator = ">" /\ avg.num > v
        \/ rule.operator = ">=" /\ avg.num >= v
        \/ rule.operator = "=" /\ avg.num = v

\* C8: getPolygonColor returns the default color when there is no data;
\* otherwise the color of the first rule, in list order, that the mean of the
\* data satisfies, and the default color when no rule is satisfied.
C8_FirstMatchingRule ==
    (call.done /\ call.fn = "getPolygonColor") =>
        LET data == call.args.weatherData
            rules == call.args.thresholds
            avg == Rat(SumSeq(data.values), Len(data.values))
            hits == {i \in 1..Len(rules) : Satisfies(avg, rules[i])}
        IN  IF ~data.defined \/ data.values = <<>> THEN call.result = "#cccccc"
            ELSE IF hits = {} THEN call.result = "#cccccc"
            ELSE \E i \in hits :
                    /\ \A j \in hits : i <= j
                    /\ call.result = rules[i].color

\* C8 witness: two rules of different colors both hold and the first one's
\* color is returned.
C8_Witness ==
    /\ call.done
    /\ call.fn = "getPolygonColor"
    /\ Len(call.args.thresholds) = 2
    /\ call.args.weatherData.defined
    /\ call.args.weatherData.values = <<9, 10>>
    /\ call.args.thresholds[1].operator = "<"
    /\ call.args.thresholds[1].value = 10
    /\ call.args.thresholds[2].operator = "<="
    /\ call.args.thresholds[1].color # call.args.thresholds[2].color
    /\ call.result = call.args.thresholds[1].color

\* C9: getTemperatureColor gives every aggregate below 10 the first color,
\* every aggregate from 10 to below 25 the second, and every aggregate of 25 or
\* more the third.
C9_BandsAt10And25 ==
    (call.done /\ call.fn = "getTemperatureColor") =>
        LET a == call.args.avgTemp
        IN  /\ a.num < 10 * a.den => call.result = "#ff0000"
            /\ (a.num >= 10 * a.den /\ a.num < 25 * a.den) => call.result = "#0000ff"
            /\ a.num >= 25 * a.den => call.result = "#00ff00"

\* C9 witness: the aggregate 10 itself was classified, into the second band.
C9_Witness ==
    /\ call.done
    /\ call.fn = "getTemperatureColor"
    /\ call.args.avgTemp = Rat(10 * MaxDen, MaxDen)
    /\ call.result = "#0000ff"

\* The mean of the different vertices of a ring, compared with a centroid.
IsMeanOfDistinct(c, ring) ==
    LET V == DistinctVertices(ring)
        n == Cardinality(V)
    IN  /\ c.x.den # 0
        /\ c.y.den # 0
        /\ c.x.num * n = SumOver([v \in V |-> v[1]], V) * c.x.den
        /\ c.y.num * n = SumOver([v \in V |-> v[2]], V) * c.y.den

NoRepeat(seq) == \A i, j \in 1..Len(seq) : i # j => seq[i] # seq[j]

\* C10 as stated: for any ring with at least three different vertices, closed
\* or not, calculateCentroid returns the mean of its different vertices.
C10_CentroidAnyRing ==
    (call.done /\ call.fn = "calculateCentroid") =>
        IsMeanOfDistinct(call.result, call.args.coords)

\* C10 amended: calculateCentroid returns the mean of the different vertices
\* of a ring that carries its closing point and whose vertices before it are
\* pairwise different; getPolygonCentroid returns it for a ring of pairwise
\* different vertices, which has no closing point.
C10_CentroidOfClosedRing ==
    /\ (/\ call.done
        /\ call.fn = "calculateCentroid"
        /\ IsClosed(call.args.coords)
        /\ NoRepeat(SliceDropLast(call.args.coords))) =>
          IsMeanOfDistinct(call.result, call.args.coords)
    /\ (call.done /\ call.fn = "getPolygonCentroid" /\ NoRepeat(call.args.coords)) =>
          IsMeanOfDistinct(call.result, call.args.coords)

\* C10 witness: the centroid of a closed ring of four different vertices.
C10_Witness ==
    /\ call.done
    /\ call.fn = "calculateCentroid"
    /\ call.args.coords = <<ptA, ptB, ptD, ptC, ptA>>
    /\ call.result = [x |-> Rat(12, 4), y |-> Rat(18, 4)]

\* C11: a mode switch changes nothing but the mode: the Single handle, the
\* Range start and end and the drag state are what they were, so that
\* switching there and back returns the handle positions held before.
C11_ModeSwitchKeepsHandles ==
    [][(\E m \in Modes : setMode(m)) =>
          UNCHANGED <<singleHandle, rangeStart, rangeEnd, dragState>>]_vars

\* C11 witness: back in Single mode by a mode switch, with the Single handle
\* where it was moved to before the switch to Range mode and both Range handles
\* where they were moved to in Range mode.
C11_Witness ==
    /\ lastInput = "mode"
    /\ mode = "single"
    /\ singleHandle = totalHours - 1
    /\ rangeStart # todayIndex
    /\ rangeEnd # todayIndex + HoursPerDay
    /\ notified.mode = "single"
    /\ notified.startSlot = singleHandle

\* C12: all three handles are slots of the timeline in every state:
\* 0 <= singleHandle <= N-1 and 0 <= rangeStart <= rangeEnd - 1 <= N - 2.
C12_HandlesAreSlots ==
    /\ 0 <= singleHandle /\ singleHandle <= totalHours - 1
    /\ 0 <= rangeStart /\ rangeStart <= rangeEnd - 1
    /\ rangeStart + 1 <= rangeEnd /\ rangeEnd <= totalHours - 1

\* C12 witness: a drag took the end handle to the last slot while the start
\* handle is at the first.
C12_Witness ==
    /\ lastInput = "move"
    /\ mode = "range"
    /\ dragState # Null
    /\ dragState.type = "end"
    /\ rangeStart = 0
    /\ rangeEnd = totalHours - 1

\* C13: a click on the track in Range mode with no drag active moves the handle
\* nearer to the clicked slot, the start handle when both are equally near,
\* and leaves the other handle where it is.
C13_ClickMovesNearest ==
    [][\A x \in PointerOffsets :
         (mode = "range" /\ dragState = Null /\ handleSliderClick(x)) =>
            LET v == getMousePosition(x)
            IN  IF Abs(v - rangeStart) <= Abs(v - rangeEnd)
                THEN rangeStart' = ClampStart(v) /\ rangeEnd' = rangeEnd
                ELSE rangeEnd' = ClampEnd(v) /\ rangeStart' = rangeStart]_vars

C15_WindowOfMode ==
    /\ notified.mode = mode
    /\ mode = "single" =>
         /\ notified.startTime = SlotTime(singleHandle)
         /\ notified.endTime = notified.startTime + 1
    /\ mode = "range" =>
         /\ notified.startTime = SlotTime(rangeStart)
         /\ notified.endTime = SlotTime(rangeEnd)
    /\ notified.startTime < notified.endTime

\* Where a shortcut to slot t leaves the handles.
Lands(t) ==
    IF mode = "single"
    THEN singleHandle' = t /\ UNCHANGED <<rangeStart, rangeEnd>>
    ELSE /\ rangeStart' = t
         /\ rangeEnd' - rangeStart' = HoursPerDay
         /\ rangeEnd' <= totalHours - 1
         /\ UNCHANGED singleHandle

\* C16: from any state "Now" puts the Single handle (Single mode) or the Range
\* start (Range mode) on todayIndex + the current local hour and "Today" puts
\* it on todayIndex; in Range mode the end is 24 slots after the start and at
\* most N - 1.
C16_ShortcutsLand ==
    [][/\ \A h \in Hours : goToNow(h) => Lands(todayIndex + h)
       /\ goToToday => Lands(todayIndex)]_vars

\* C16 witness: "Now" in the last hour of the day, in Range mode, during a drag.
C16_Witness ==
    /\ lastInput = "now"
    /\ mode = "range"
    /\ dragState # Null
    /\ rangeStart = todayIndex + HoursPerDay - 1
    /\ rangeEnd = todayIndex + 2 * HoursPerDay - 1

\* C20: pointer-down on a handle binds the drag to that handle, also when a
\* drag is active; pointer-up ends the drag; nothing else changes the drag
\* state; and with no drag active only a click or a shortcut moves a handle.
C20_DragFromDownToUp ==
    [][/\ \A h \in HandleTypes : handleMouseDown(h) => dragState' = [type |-> h]
       /\ handleMouseUp => dragState' = Null
       /\ dragState' # dragState =>
            (handleMouseUp \/ \E h \in HandleTypes : handleMouseDown(h))
       /\ (/\ dragState = Null
           /\ <<singleHandle, rangeStart, rangeEnd>>'
                 # <<singleHandle, rangeStart, rangeEnd>>) =>
            lastInput' \in {"click", "now", "today"}]_vars

\* C20 witness: a pointer-up ended a drag after both Range handles were taken
\* to the last two slots.
C20_Witness ==
    /\ lastInput = "up"
    /\ dragState = Null
    /\ mode = "range"
    /\ rangeStart = totalHours - 2
    /\ rangeEnd = totalHours - 1

\* C17: a pass over a ring of three or more vertices has a fetch outstanding
\* or settled for every vertex before the closing point from the moment it
\* starts: no fetch waits for another one.
C17_FetchesConcurrent ==
    \A p \in passes :
        ValidRing(p.coordinates) => Issued(p) = Len(SliceDropLast(p.coordinates))

\* C18: when a pass over a ring of three or more vertices ends with every
\* sample absent, the polygon is published by that pass in the neutral default
\* color.
C18_AllAbsentIsNeutral ==
    (/\ lastEvent.kind = "done"
     /\ ValidRing(lastEvent.coordinates)
     /\ Present(lastEvent.samples) = {}) =>
        /\ fillLayers[lastEvent.id] # Null
        /\ fillLayers[lastEvent.id].pass = lastEvent.serial
        /\ fillLayers[lastEvent.id].color = "#cccccc"

\* What a create event for id with ring r does to an id that has no marker,
\* layer, source or stored data: it starts pass number nextSerial over r and
\* publishes nothing; a ring with nothing to sample ends the pass at once.
StartsPass(id, r) ==
    LET p == [serial |-> nextSerial, id |-> id, coordinates |-> r, idx |-> 0,
              samples |-> <<>>, temperatures |-> <<>>]
    IN  /\ nextSerial' = nextSerial + 1
        /\ generation' = [generation EXCEPT ![id] =
                            [serial |-> nextSerial, coordinates |-> r]]
        /\ passes' = IF Len(r) > 1 THEN passes \cup {p} ELSE passes
        /\ Len(r) > 1 => UNCHANGED <<polygonAvgTemp, polygonCentroid>>
        /\ Len(r) <= 1 => polygonAvgTemp' = Null /\ polygonCentroid' = Null
        /\ cmds' = <<>>
        /\ UNCHANGED published

\* C19: for an id that is not known, an update event and a create event with
\* the same ring have the same effect: a step that is the one or the other
\* starts the same pass and publishes nothing.
C19_UpdateUnknownIsCreate ==
    [][\A id \in Ids :
         (/\ ~Known(id)
          /\ lastEvent'.id = id
          /\ lastEvent'.kind \in {"create", "update"}) =>
            \A r \in Rings :
                /\ drawCreate(id, "Polygon", r) => StartsPass(id, r)
                /\ drawUpdate(id, "Polygon", r) => StartsPass(id, r)]_vars

\* C19 witness: the first event of an id was an update, and its pass is
\* outstanding.
C19_Witness ==
    /\ lastEvent.kind = "update"
    /\ lastEvent.id = "p1"
    /\ lastEvent.serial = 1
    /\ ~Known("p1")
    /\ \E p \in passes : p.serial = 1 /\ p.id = "p1" /\ p.coordinates = RingABD

\* C21: a delete event for an id wins over the passes outstanding for the id:
\* when such a pass over a ring of three or more vertices ends, and no create
\* or update event for the id came after the delete, the id has no layer, no
\* source, no marker and no stored data.
C21_RemoveWinsOverPass ==
    (/\ lastEvent.kind = "done"
     /\ lastEvent.id \in removed
     /\ ValidRing(lastEvent.coordinates)) => ~Known(lastEvent.id)

\* C22: a pointer-move during a drag changes at most the handle the drag is
\* bound to: the mode and the two other handles are what they were, whatever
\* the mode is.
C22_MoveChangesBoundHandleOnly ==
    [][\A x \in PointerOffsets :
         (dragState # Null /\ handleMouseMove(x)) =>
            /\ mode' = mode
            /\ dragState.type # "single" => singleHandle' = singleHandle
            /\ dragState.type # "start" => rangeStart' = rangeStart
            /\ dragState.type # "end" => rangeEnd' = rangeEnd]_vars

\* C23: when every fetch settles in the end, every pass started by a create or
\* update event ends in its aggregation step, whatever fetches failed.
C23_EveryPassEnds ==
    \A serial \in 1..MaxPasses :
        (lastEvent.kind \in {"create", "update"} /\ lastEvent.serial = serial)
            ~> (PassEnded /\ lastEvent.serial = serial)

\* C23 witness: the pass of an update ended after its first and its last fetch
\* had failed.
C23_Witness ==
    /\ lastEvent.kind = "done"
    /\ lastEvent.serial = 2
    /\ generation[lastEvent.id].serial = 2
    /\ Len(lastEvent.samples) = 3
    /\ lastEvent.samples[1] = Null
    /\ lastEvent.samples[2] # Null
    /\ lastEvent.samples[3] = Null
    /\ polygonAvgTemp # Null

\* What is published for a polygon: its source, its layers, its marker as
\* recorded and as attached, and its stored data.
PublishedOf(id) ==
    <<sources[id], fillLayers[id], outlineLayers[id], polygonTempMarkersRef[id],
      {m \in mapMarkers : m.id = id}, polygonData[id]>>

\* C24: a create, update or delete event of a polygon and the end of one of
\* its passes leave what is published for every other polygon as it was, and
\* a fetch that settles before the end of its pass changes nothing published.
C24_PolygonsIndependent ==
    [][/\ \A P \in Ids :
            lastEvent'.id = P =>
                \A Q \in Ids \ {P} : PublishedOf(Q)' = PublishedOf(Q)
       /\ lastEvent'.kind = "sampled" => UNCHANGED published]_vars

\* C24 witness: the pass of one polygon ended after a pass of the other
\* polygon had started and ended meanwhile, and both are published.
C24_Witness ==
    /\ lastEvent.kind = "done"
    /\ lastEvent.id = "p2"
    /\ lastEvent.serial = 1
    /\ polygonData["p2"] # Null
    /\ polygonData["p2"].pass = 1
    /\ polygonData["p1"] # Null
    /\ polygonData["p1"].pass = 2
    /\ Cardinality(mapMarkers) = 2

\* C25: the updating mark is transient: whenever the flag is set, it is
\* cleared again later.
C25_UpdatingMarkTransient == isUpdatingPolygons ~> ~isUpdatingPolygons

\* C26: sampling never blocks the slider: in every state with a fetch
\* outstanding a pointer-down, a click, both shortcuts and a mode switch can be
\* handled, and during a drag a pointer-move and a pointer-up; a step that
\* changes the slider's state leaves the map's state as it was.
C26_TimelineNeverBlocked ==
    /\ [](passes # {} =>
            /\ ENABLED MouseDown
            /\ ENABLED ClickAtEnd
            /\ ENABLED NowAfternoon
            /\ ENABLED GoToToday
            /\ ENABLED SetMode
            /\ dragState # Null => (ENABLED MoveToEnd /\ ENABLED MouseUp))
    /\ [][timeVars' # timeVars => UNCHANGED polyVars]_vars

\* C26 witness: a drag move took the end handle to the last slot while the
\* third fetch of a pass is outstanding.
C26_Witness ==
    /\ \E p \in passes : p.idx = 2
    /\ lastInput = "move"
    /\ dragState # Null
    /\ dragState.type = "end"
    /\ rangeEnd = totalHours - 1

\* The marker.remove calls among the commands of the last handler.
Releases(id) == {i \in 1..Len(cmds) : cmds[i] = Cmd("marker.remove", id)}
\* The recorded marker of the id is attached before the step and not after it.
Detached(id) ==
    polygonTempMarkersRef[id] # Null /\ polygonTempMarkersRef[id] \notin mapMarkers'

\* C27: the markers attached to the map are exactly the markers recorded in
\* polygonTempMarkersRef, each under its own id, so that an id has at most one
\* marker attached; a handler calls remove once on every marker it detaches
\* and on nothing else; and a delete event leaves its id without marker.
C27_MarkerOwnershipExact ==
    /\ [](/\ \A m \in mapMarkers : polygonTempMarkersRef[m.id] = m
          /\ \A id \in Ids :
                polygonTempMarkersRef[id] # Null =>
                    polygonTempMarkersRef[id] \in mapMarkers)
    /\ [][\A id \in Ids :
            /\ Cardinality(Releases(id)') = IF Detached(id) THEN 1 ELSE 0
            /\ (lastEvent'.kind = "delete" /\ lastEvent'.id = id) =>
                  polygonTempMarkersRef'[id] = Null]_vars

\* C27 witness: a delete event released the marker of one polygon while the
\* marker of the other stays attached.
C27_Witness ==
    /\ lastEvent.kind = "delete"
    /\ lastEvent.id = "p1"
    /\ Releases("p1") # {}
    /\ polygonTempMarkersRef["p2"] # Null
    /\ mapMarkers = {polygonTempMarkersRef["p2"]}

\* The band a color stands for, in either spelling of its hex digits.
ColorBand(color) ==
    CASE color \in {"#ff0000", "#FF0000"} -> "below 10"
      [] color \in {"#0000ff", "#0000FF"} -> "10 to below 25"
      [] color \in {"#00ff00", "#00FF00"} -> "25 and above"
      [] OTHER -> "none"

\* C28: on the default thresholds of the sidebar getPolygonColor gives the
\* mean of any data the color of the band that getTemperatureColor gives it.
C28_DefaultRulesMatchClassifier ==
    (/\ call.done
     /\ call.fn = "getPolygonColor"
     /\ call.args.thresholds = DefaultThresholds
     /\ call.args.weatherData.defined
     /\ call.args.weatherData.values # <<>>) =>
        ColorBand(call.result)
          = ColorBand(getTemperatureColor(Average(call.args.weatherData.values)))

\* The slot nearest to a pointer at `offset` pixels from the left end of the
\* track, the pointer taken to the nearer end when it is off the track.
IsClickedSlot(v, offset) ==
    LET c == Max(0, Min(TrackWidth, offset))
    IN  /\ v \in 0..(totalHours - 1)
        /\ 2 * Abs(c * (totalHours - 1) - v * TrackWidth) <= TrackWidth

\* C29: a click on the track during a drag moves no handle; a click in Single
\* mode with no drag active puts the Single handle on the clicked slot and
\* leaves the Range start and end where they are.
C29_ClickOnlyWhileIdle ==
    [][lastInput' = "click" =>
         \A x \in PointerOffsets :
            handleSliderClick(x) =>
               /\ dragState # Null => UNCHANGED <<singleHandle, rangeStart, rangeEnd>>
               /\ (dragState = Null /\ mode = "single") =>
                     /\ IsClickedSlot(singleHandle', x)
                     /\ UNCHANGED <<rangeStart, rangeEnd>>]_vars

\* C29 witness: with no drag active a click right of the track put the
\* Single handle on the last slot, the Range handles staying where earlier
\* drags had left them.
C29_Witness ==
    /\ lastInput = "click"
    /\ dragState = Null
    /\ mode = "single"
    /\ singleHandle = totalHours - 1
    /\ notified.startSlot = totalHours - 1
    /\ rangeStart = 0
    /\ rangeEnd = 1

RulesOf(sourceId) == FindSource(sourceId).thresholds

\* C30: the list of threshold rules of a data source is never empty, and
\* removing a rule of a list of one rule leaves the list as it is.
C30_RulesNeverEmpty ==
    /\ [](\A sourceId \in SourceIds : RulesOf(sourceId) # <<>>)
    /\ [][\A sourceId \in SourceIds :
            Len(RulesOf(sourceId)) = 1 =>
                \A thresholdId \in RuleIdsOf(sourceId) :
                    removeThreshold(sourceId, thresholdId) => UNCHANGED dataSources]_vars

====
